---- MODULE Spec2Model ----
(***************************************************************************)
(* Interview state machine (bot/interview/interview_agent.py) and the      *)
(* completeness analyzer (bot/interview/question_analyzer.py).             *)
(*                                                                         *)
(* Texts are sequences of tokens.  A token stands for a run of characters  *)
(* of the Python string: "sp" is one whitespace character, "?" one         *)
(* question mark, "kw" one of the completion-indicating words of           *)
(* _basic_analysis, "c1"/"c10" a run of 1/10 ordinary characters, "NL2"    *)
(* the two-newline separator; every other token is an opaque phrase.       *)
(* Python's None is the empty tuple, a present value v is <<v>>.           *)
(***************************************************************************)
EXTENDS Integers, Sequences, FiniteSets, Bags, TLC

VARIABLES interviews, last, submitted, completion_result, running, serial

vars == <<interviews, last, submitted, completion_result, running, serial>>

(***************************************************************************)
(* Bounds                                                                  *)
(***************************************************************************)
\* number of questions of the configured sequence (at most 7, see _get_result)
NumQuestions == 2
\* failed identity submits explored per session
MaxIdentityRetries == 1

Users == {1, 2}
\* users that act in Spec
ActiveUsers == {1}

None == <<>>
Some(v) == <<v>>

(***************************************************************************)
(* InterviewState                                                          *)
(***************************************************************************)
WAITING_FOR_START == "waiting_for_start"
GETTING_NAME_AGE == "getting_name_age"
ASKING_QUESTION == "asking_question"
FOLLOWING_UP == "following_up"
COMPLETED == "completed"

(***************************************************************************)
(* interview_questions: INTRODUCTION, QUESTIONS, COMPLETION_MESSAGE        *)
(***************************************************************************)
QuestionIds == <<"q1", "q2", "q3", "q4", "q5", "q6", "q7">>
QuestionTexts == <<"Q1", "Q2", "Q3", "Q4", "Q5", "Q6", "Q7">>
\* the required elements of each question; the second question has none
QuestionElements ==
    << <<"e1", "e2">>, <<>>, <<"e1">>, <<"e1", "e2">>, <<"e1", "e2">>,
       <<"e1", "e2">>, <<"e1", "e2">> >>

INTRODUCTION == <<"INTRODUCTION">>
COMPLETION_MESSAGE == <<"COMPLETION_MESSAGE">>
QUESTIONS ==
    [i \in 1..NumQuestions |->
        [id |-> QuestionIds[i],
         question |-> <<QuestionTexts[i]>>,
         required_elements |-> QuestionElements[i]]]

\* QUESTIONS[i] with Python's zero-based index
QuestionAt(i) == QUESTIONS[i + 1]

(***************************************************************************)
(* String operations                                                       *)
(***************************************************************************)
\* len() of the run of characters a token stands for
TokLen(t) ==
    CASE t = "c10" -> 10
      [] t = "kw" -> 3
      [] t = "NL2" -> 2
      [] OTHER -> 1

RECURSIVE StrLen(_)
StrLen(s) == IF s = <<>> THEN 0 ELSE TokLen(Head(s)) + StrLen(Tail(s))

IsSpace(t) == t \in {"sp", "NL2"}

RECURSIVE LStrip(_)
LStrip(s) == IF s # <<>> /\ IsSpace(Head(s)) THEN LStrip(Tail(s)) ELSE s

RECURSIVE RStrip(_)
RStrip(s) ==
    IF s # <<>> /\ IsSpace(s[Len(s)]) THEN RStrip(SubSeq(s, 1, Len(s) - 1)) ELSE s

\* str.strip()
Strip(s) == RStrip(LStrip(s))

\* str.count(t)
RECURSIVE Count(_, _)
Count(s, t) ==
    IF s = <<>> THEN 0
    ELSE (IF Head(s) = t THEN 1 ELSE 0) + Count(Tail(s), t)

\* sep.join(parts)
RECURSIVE Join(_, _)
Join(sep, parts) ==
    IF parts = <<>> THEN <<>>
    ELSE IF Len(parts) = 1 THEN parts[1]
    ELSE parts[1] \o sep \o Join(sep, Tail(parts))

\* dict.get(k, default)
Get(d, k, default) == IF k \in DOMAIN d THEN d[k] ELSE default

\* del d[k]
Del(d, k) == [x \in (DOMAIN d) \ {k} |-> d[x]]

\* d[k] = v
Put(d, k, v) == [x \in (DOMAIN d) \cup {k} |-> IF x = k THEN v ELSE d[x]]

EmptyDict == [x \in {} |-> 0]

\* list[:-1]
AllButLast(l) == SubSeq(l, 1, Len(l) - 1)

\* list[-n:]
LastN(l, n) == IF Len(l) > n THEN SubSeq(l, Len(l) - n + 1, Len(l)) ELSE l

\* list[:n]
FirstN(l, n) == IF Len(l) > n THEN SubSeq(l, 1, n) ELSE l

(***************************************************************************)
(* QuestionAnalyzer                                                        *)
(***************************************************************************)
FEEDBACK_COMPLETE == <<"FEEDBACK_COMPLETE">>
FEEDBACK_TOO_SHORT == <<"FEEDBACK_TOO_SHORT">>
FEEDBACK_QUESTION_MARKS == <<"FEEDBACK_QUESTION_MARKS">>
FEEDBACK_TELL_MORE == <<"FEEDBACK_TELL_MORE">>
MORE_INFORMATION == "more_information"

\* str.lower(): "C10" is a run of 10 upper-case characters
Lower(s) == [i \in 1..Len(s) |-> IF s[i] = "C10" THEN "c10" ELSE s[i]]

\* any(keyword in response_lower for keyword in [...])
HasKeyword(s) == \E i \in 1..Len(s) : s[i] = "kw"

MinLength == 30
MidLength == 40
LongLength == 80
MaxQuestionMarks == 2

\* the keyword loop: one hit per required element when a keyword occurs
KeywordsFound(response_lower, required_elements) ==
    IF HasKeyword(response_lower) THEN Len(required_elements) ELSE 0

_basic_analysis_inclusive(user_response, required_elements) ==
    LET response_lower == Lower(user_response)
        n == StrLen(Strip(user_response))
    IN  IF n <= MinLength
        THEN [is_complete |-> FALSE,
              missing_elements |-> required_elements,
              feedback |-> FEEDBACK_TOO_SHORT]
        ELSE IF Count(user_response, "?") > MaxQuestionMarks
        THEN [is_complete |-> FALSE,
              missing_elements |-> <<MORE_INFORMATION>>,
              feedback |-> FEEDBACK_QUESTION_MARKS]
        ELSE IF n > MidLength
                /\ (KeywordsFound(response_lower, required_elements) > 0
                    \/ n > LongLength)
        THEN [is_complete |-> TRUE,
              missing_elements |-> <<>>,
              feedback |-> FEEDBACK_COMPLETE]
        ELSE [is_complete |-> FALSE,
              missing_elements |-> FirstN(required_elements, 1),
              feedback |-> FEEDBACK_TELL_MORE]

_basic_analysis(user_response, required_elements) ==
    LET response_lower == Lower(user_response)
        n == StrLen(Strip(user_response))
    IN  IF n < MinLength
        THEN [is_complete |-> FALSE,
              missing_elements |-> required_elements,
              feedback |-> FEEDBACK_TOO_SHORT]
        ELSE IF Count(user_response, "?") > MaxQuestionMarks
        THEN [is_complete |-> FALSE,
              missing_elements |-> <<MORE_INFORMATION>>,
              feedback |-> FEEDBACK_QUESTION_MARKS]
        ELSE IF n > MidLength
                /\ (KeywordsFound(response_lower, required_elements) > 0
                    \/ n > LongLength)
        THEN [is_complete |-> TRUE,
              missing_elements |-> <<>>,
              feedback |-> FEEDBACK_COMPLETE]
        ELSE [is_complete |-> FALSE,
              missing_elements |-> FirstN(required_elements, 1),
              feedback |-> FEEDBACK_TELL_MORE]

\* The reply of client.get_response(analysis_prompt), by what the parsing
\* steps make of it:
\*   "raise"           the call raises
\*   "no_json"         the text holds no {...}
\*   "bad_json"        json.loads fails, also after the trailing-comma repair
\*   "trailing_comma"  json.loads fails, and succeeds after the repair
\*   "json"            json.loads succeeds
\*   "unusable"        json.loads succeeds and a policy correction raises on a
\*                     field (feedback a number, missing_elements null)
\* with the is_complete, missing_elements and feedback of the parsed object.
LLMKinds == {"raise", "no_json", "bad_json", "trailing_comma", "json", "unusable"}

\* a feedback field that holds a JSON number and not a string
JsonNumber == <<"JSON_NUMBER">>

\* "not feedback or feedback.strip() == ..." of a complete verdict raises
\* AttributeError on a number, inside the try of analyze_response
CorrectionRaises(analysis_json) ==
    analysis_json.is_complete /\ analysis_json.feedback = JsonNumber

PolicyCorrections_uncorrected(analysis_json) ==
    LET is_complete == analysis_json.is_complete
        feedback0 == analysis_json.feedback
    IN  [is_complete |-> is_complete,
         missing_elements |-> analysis_json.missing_elements,
         feedback |-> IF is_complete /\ Strip(feedback0) = <<>>
                      THEN FEEDBACK_COMPLETE ELSE feedback0]

\* the policy corrections applied to the parsed object
PolicyCorrections(analysis_json) ==
    LET is_complete == analysis_json.is_complete
        missing_elements == analysis_json.missing_elements
        feedback0 == analysis_json.feedback
        feedback1 == IF is_complete /\ Strip(feedback0) = <<>>
                     THEN FEEDBACK_COMPLETE ELSE feedback0
    IN  IF ~is_complete /\ Len(missing_elements) = 0
        THEN [is_complete |-> TRUE,
              missing_elements |-> missing_elements,
              feedback |-> FEEDBACK_COMPLETE]
        ELSE [is_complete |-> is_complete,
              missing_elements |-> missing_elements,
              feedback |-> feedback1]

analyze_response_default(user_response, required_elements, llm) ==
    IF llm.kind \in {"json", "trailing_comma"}
    THEN PolicyCorrections(llm)
    ELSE IF llm.kind = "raise"
    THEN _basic_analysis(user_response, required_elements)
    ELSE [is_complete |-> FALSE,
          missing_elements |-> required_elements,
          feedback |-> <<>>]

analyze_response(user_response, required_elements, llm) ==
    IF llm.kind \in {"json", "trailing_comma"} /\ ~CorrectionRaises(llm)
    THEN PolicyCorrections(llm)
    ELSE _basic_analysis(user_response, required_elements)

(***************************************************************************)
(* InterviewAgent: session record and result                               *)
(***************************************************************************)
\* the dict start_interview stores for a user
NewInterview ==
    [state |-> GETTING_NAME_AGE,
     current_question_index |-> 0,
     name |-> None,
     age |-> None,
     answers |-> EmptyDict,
     question_responses |-> EmptyDict,
     follow_up_count |-> EmptyDict,
     conversation_history |-> <<>>]

_get_result_shifted(interview) ==
    [name |-> interview.name,
     age |-> interview.age,
     q1 |-> Get(interview.answers, "q1", <<>>),
     q2 |-> Get(interview.answers, "q1", <<>>),
     q3 |-> Get(interview.answers, "q2", <<>>),
     q4 |-> Get(interview.answers, "q3", <<>>),
     q5 |-> Get(interview.answers, "q4", <<>>),
     q6 |-> Get(interview.answers, "q5", <<>>),
     q7 |-> Get(interview.answers, "q6", <<>>)]

_get_result(interview) ==
    [name |-> interview.name,
     age |-> interview.age,
     q1 |-> Get(interview.answers, "q1", <<>>),
     q2 |-> Get(interview.answers, "q2", <<>>),
     q3 |-> Get(interview.answers, "q3", <<>>),
     q4 |-> Get(interview.answers, "q4", <<>>),
     q5 |-> Get(interview.answers, "q5", <<>>),
     q6 |-> Get(interview.answers, "q6", <<>>),
     q7 |-> Get(interview.answers, "q7", <<>>)]

\* the dict process_response returns
Response(message, state, is_complete, result) ==
    [message |-> message, state |-> state,
     is_complete |-> is_complete, result |-> result]

UserTurn(content) == [role |-> "user", content |-> content]
AssistantTurn(content) == [role |-> "assistant", content |-> content]

(***************************************************************************)
(* InterviewAgent._handle_name_age                                         *)
(*                                                                         *)
(* An identity message is a sequence of lines, a line a sequence of words. *)
(* "name:" and "age:" are words holding the name / age marker and ending   *)
(* with a colon, "name" and "age" the markers without a colon; "0", "9",   *)
(* "25" are digit words; "Al" is a two-letter word; the rest are longer.   *)
(***************************************************************************)
HasNameMarker(w) == w \in {"name:", "name"}
HasAgeMarker(w) == w \in {"age:", "age"}
EndsWithColon(w) == w \in {"name:", "age:"}
Uncolon(w) == CASE w = "name:" -> "name" [] w = "age:" -> "age" [] OTHER -> w
IsDigit(w) == w \in {"0", "9", "25"}
IntOf(w) == CASE w = "0" -> 0 [] w = "9" -> 9 [] w = "25" -> 25 [] OTHER -> 0
WordLen(w) ==
    CASE w \in {"0", "9"} -> 1
      [] w \in {"25", "Al"} -> 2
      [] w \in {"age:", "name"} -> 4
      [] w = "age" -> 3
      [] OTHER -> 5

\* 'نام' in line or 'اسم' in line
LineHasNameMarker(line) == \E i \in 1..Len(line) : HasNameMarker(line[i])

\* 'سن' in line
LineHasAgeMarker(line) == \E i \in 1..Len(line) : HasAgeMarker(line[i])

\* index of the first word of the line ending with a colon, 0 if none
FirstColon(line) ==
    IF \E i \in 1..Len(line) : EndsWithColon(line[i])
    THEN CHOOSE i \in 1..Len(line) :
             /\ EndsWithColon(line[i])
             /\ \A j \in 1..(i - 1) : ~EndsWithColon(line[j])
    ELSE 0

\* line.split(':')[1].strip(), for a line with a colon
Parts1(line) ==
    LET k == FirstColon(line)
        rest == SubSeq(line, k + 1, Len(line))
        j == FirstColon(rest)
    IN  IF j = 0 THEN rest
        ELSE Append(SubSeq(rest, 1, j - 1), Uncolon(rest[j]))

\* truthiness of the local name and age
NameFound(name) == name # <<>>
AgeFound(age) == age # None /\ age[1] # 0

\* the lines whose "name: value" pattern assigns the name
NameLines(lines) ==
    {i \in 1..Len(lines) : LineHasNameMarker(lines[i]) /\ FirstColon(lines[i]) > 0}

\* the lines whose "age: value" pattern assigns the age: int() succeeds
AgeLines(lines) ==
    {i \in 1..Len(lines) :
        /\ ~LineHasNameMarker(lines[i])
        /\ LineHasAgeMarker(lines[i])
        /\ FirstColon(lines[i]) > 0
        /\ Len(Parts1(lines[i])) = 1
        /\ IsDigit(Parts1(lines[i])[1])}

LastOf(S) == CHOOSE i \in S : \A j \in S : j <= i

\* the loop over the lines: "label: value" patterns, the last match wins
ScanLines(lines) ==
    [name |-> IF NameLines(lines) = {} THEN <<>>
              ELSE Parts1(lines[LastOf(NameLines(lines))]),
     age |-> IF AgeLines(lines) = {} THEN None
             ELSE Some(IntOf(Parts1(lines[LastOf(AgeLines(lines))])[1]))]

RECURSIVE Flatten(_)
Flatten(lines) == IF lines = <<>> THEN <<>> ELSE Head(lines) \o Flatten(Tail(lines))

MinAge == 3
MaxAge == 20

\* the loop over the words: an integer in the age range and a word next to it
RECURSIVE ScanWords(_, _, _)
ScanWords(words, i, na) ==
    IF i > Len(words) THEN na
    ELSE LET word == words[i]
             na1 == IF IsDigit(word) /\ MinAge <= IntOf(word) /\ IntOf(word) <= MaxAge
                    THEN [name |-> IF i > 1 /\ WordLen(words[i - 1]) > 2
                                   THEN <<words[i - 1]>>
                                   ELSE IF i < Len(words) /\ WordLen(words[i + 1]) > 2
                                   THEN <<words[i + 1]>>
                                   ELSE na.name,
                          age |-> Some(IntOf(word))]
                    ELSE na
         IN  ScanWords(words, i + 1, na1)

ExtractWithAI_cleared(na, llm) ==
    IF llm.kind = "json"
    THEN [name |-> IF llm.name # None THEN llm.name ELSE na.name,
          age |-> IF AgeFound(llm.age) THEN llm.age ELSE na.age]
    ELSE [name |-> <<>>, age |-> None]

\* The reply of client.get_response(extraction_prompt): kind "raise",
\* "no_json", "bad_json" or "json", with the name and age of the parsed object
\* (None for null).
ExtractWithAI(na, llm) ==
    IF llm.kind = "json"
    THEN [name |-> IF llm.name # None THEN llm.name ELSE na.name,
          age |-> IF AgeFound(llm.age) THEN llm.age ELSE na.age]
    ELSE na

\* if not name or not age: the positional scan
ExtractByWords(user_message, na) ==
    IF ~NameFound(na.name) \/ ~AgeFound(na.age)
    THEN ScanWords(Flatten(user_message), 1, na) ELSE na

\* if not name or not age: the extraction call
ExtractByAI(na, llm) ==
    IF ~NameFound(na.name) \/ ~AgeFound(na.age)
    THEN ExtractWithAI(na, llm) ELSE na

ExtractNameAge(user_message, llm) ==
    ExtractByAI(ExtractByWords(user_message, ScanLines(user_message)), llm)

WelcomeMessage(name, question) ==
    <<"WELCOME">> \o name \o <<"LETS_START", "NL2">> \o question

MissingList(name, age) ==
    (IF ~NameFound(name) THEN <<"NAME">> ELSE <<>>)
    \o (IF ~AgeFound(age) THEN <<"AGE">> ELSE <<>>)

RECURSIVE Singletons(_)
Singletons(l) == IF l = <<>> THEN <<>> ELSE <<(<<Head(l)>>)>> \o Singletons(Tail(l))

MissingMessage(missing) ==
    <<"DONT_KNOW_YET">> \o Join(<<", ">>, Singletons(missing)) \o <<"PLEASE_TELL">>

NameAgeOutcome_either(interview, na) ==
    IF NameFound(na.name) \/ AgeFound(na.age)
    THEN LET welcome_msg == WelcomeMessage(na.name, QuestionAt(0).question)
         IN  [interview |->
                 [interview EXCEPT
                    !.name = na.name,
                    !.age = na.age,
                    !.state = ASKING_QUESTION,
                    !.conversation_history = Append(@, AssistantTurn(welcome_msg))],
              analysis |-> None,
              extracted |-> Some(na),
              calls |-> <<>>,
              ret |-> Response(welcome_msg, ASKING_QUESTION, FALSE, None)]
    ELSE LET missing_msg == MissingMessage(MissingList(na.name, na.age))
         IN  [interview |->
                 [interview EXCEPT
                    !.conversation_history = Append(@, AssistantTurn(missing_msg))],
              analysis |-> None,
              extracted |-> Some(na),
              calls |-> <<>>,
              ret |-> Response(missing_msg, GETTING_NAME_AGE, FALSE, None)]

NameAgeOutcome_carried(interview, na) ==
    IF (NameFound(na.name) \/ NameFound(interview.name))
       /\ (AgeFound(na.age) \/ AgeFound(interview.age))
    THEN LET welcome_msg == WelcomeMessage(na.name, QuestionAt(0).question)
         IN  [interview |->
                 [interview EXCEPT
                    !.name = IF NameFound(na.name) THEN na.name ELSE @,
                    !.age = IF AgeFound(na.age) THEN na.age ELSE @,
                    !.state = ASKING_QUESTION,
                    !.conversation_history = Append(@, AssistantTurn(welcome_msg))],
              analysis |-> None,
              extracted |-> Some(na),
              calls |-> <<>>,
              ret |-> Response(welcome_msg, ASKING_QUESTION, FALSE, None)]
    ELSE LET missing_msg == MissingMessage(MissingList(na.name, na.age))
         IN  [interview |->
                 [interview EXCEPT
                    !.name = IF NameFound(na.name) THEN na.name ELSE @,
                    !.age = IF AgeFound(na.age) THEN na.age ELSE @,
                    !.conversation_history = Append(@, AssistantTurn(missing_msg))],
              analysis |-> None,
              extracted |-> Some(na),
              calls |-> <<>>,
              ret |-> Response(missing_msg, GETTING_NAME_AGE, FALSE, None)]

\* the two outcomes of "if name and age"; extracted is the local name and age
NameAgeOutcome(interview, na) ==
    IF NameFound(na.name) /\ AgeFound(na.age)
    THEN LET welcome_msg == WelcomeMessage(na.name, QuestionAt(0).question)
         IN  [interview |->
                 [interview EXCEPT
                    !.name = na.name,
                    !.age = na.age,
                    !.state = ASKING_QUESTION,
                    !.conversation_history = Append(@, AssistantTurn(welcome_msg))],
              analysis |-> None,
              extracted |-> Some(na),
              calls |-> <<>>,
              ret |-> Response(welcome_msg, ASKING_QUESTION, FALSE, None)]
    ELSE LET missing_msg == MissingMessage(MissingList(na.name, na.age))
         IN  [interview |->
                 [interview EXCEPT
                    !.conversation_history = Append(@, AssistantTurn(missing_msg))],
              analysis |-> None,
              extracted |-> Some(na),
              calls |-> <<>>,
              ret |-> Response(missing_msg, GETTING_NAME_AGE, FALSE, None)]

\* the extraction call, made when the label and positional steps left the
\* name or the age unresolved (before), and the reply it got
ExtractionCalls(before, llm) ==
    IF ~NameFound(before.name) \/ ~AgeFound(before.age)
    THEN <<[callee |-> "get_response", before |-> before, reply |-> llm]>>
    ELSE <<>>

_handle_name_age(interview, user_message, llm) ==
    [NameAgeOutcome(interview, ExtractNameAge(user_message, llm)) EXCEPT
        !.calls = ExtractionCalls(ExtractByWords(user_message, ScanLines(user_message)),
                                  llm)]

(***************************************************************************)
(* InterviewAgent._handle_question_response and _handle_follow_up          *)
(***************************************************************************)
HistoryWindow == 15

CombinedAnswer_last(all_responses) == all_responses[Len(all_responses)]

\* "\n\n".join(all_responses)
CombinedAnswer(all_responses) == Join(<<"NL2">>, all_responses)

AppendUserMessage_windowed(interview, question_id, user_message) ==
    [interview EXCEPT
       !.conversation_history = LastN(Append(@, UserTurn(user_message)), HistoryWindow),
       !.question_responses =
           Put(@, question_id, Append(Get(@, question_id, <<>>), user_message))]

\* the user turn is appended to the history and to the question's responses
AppendUserMessage(interview, question_id, user_message) ==
    [interview EXCEPT
       !.conversation_history = Append(@, UserTurn(user_message)),
       !.question_responses =
           Put(@, question_id, Append(Get(@, question_id, <<>>), user_message))]

\* previous_responses, as passed to the analyzer (None for an empty list)
PreviousResponses(interview, question_id) ==
    LET previous_responses == AllButLast(interview.question_responses[question_id])
    IN  IF previous_responses # <<>> THEN Some(previous_responses) ELSE None

RecentHistory_current(interview) ==
    LET recent_history == LastN(interview.conversation_history, HistoryWindow)
    IN  IF Len(recent_history) > 1 THEN Some(recent_history) ELSE None

\* conversation_history, as passed to the analyzer
RecentHistory(interview) ==
    LET recent_history == LastN(interview.conversation_history, HistoryWindow)
    IN  IF Len(recent_history) > 1 THEN Some(AllButLast(recent_history)) ELSE None

\* analyze_response makes one call of client.get_response, whatever comes back
get_response_calls_retried(llm) == IF llm.kind = "raise" THEN 1 + 1 ELSE 1

get_response_calls(llm) == 1

\* the arguments of self.analyzer.analyze_response, once the user turn is
\* stored (i1), and the calls of the model the analyzer makes with them
AnalyzerCall(i1, question_data, user_message, llm) ==
    [callee |-> "analyze_response",
     question_id |-> question_data.id,
     question_text |-> question_data.question,
     user_response |-> user_message,
     required_elements |-> question_data.required_elements,
     previous_responses |-> PreviousResponses(i1, question_data.id),
     conversation_history |-> RecentHistory(i1),
     get_response_calls |-> get_response_calls(llm)]

\* the outcome of a handler that made the call
WithAnalyzerCall(out, call) == [out EXCEPT !.calls = Append(@, call)]

ResetFollowUpCount_kept(follow_up_count, question_id) == follow_up_count

\* if question_id in follow_up_count: del follow_up_count[question_id]
ResetFollowUpCount(follow_up_count, question_id) ==
    IF question_id \in DOMAIN follow_up_count
    THEN Del(follow_up_count, question_id) ELSE follow_up_count

NextIndex_skip(current_question_index) == current_question_index + 2

\* current_question_index += 1
NextIndex(current_question_index) == current_question_index + 1

SaveAndAdvance_unsaved(interview, question_id) ==
    [interview EXCEPT
       !.follow_up_count = ResetFollowUpCount(@, question_id),
       !.current_question_index = NextIndex(@)]

\* the answer is saved, the counter dropped and the cursor moved on
SaveAndAdvance(interview, question_id) ==
    [interview EXCEPT
       !.answers = Put(@, question_id,
                       CombinedAnswer(interview.question_responses[question_id])),
       !.follow_up_count = ResetFollowUpCount(@, question_id),
       !.current_question_index = NextIndex(@)]

\* if question_id not in follow_up_count: ... = 0; follow_up_count[question_id] += 1
CountFollowUp(follow_up_count, question_id) ==
    Put(follow_up_count, question_id, Get(follow_up_count, question_id, 0) + 1)

\* if current_question_index >= len(QUESTIONS)
AllQuestionsDone(current_question_index) == current_question_index >= Len(QUESTIONS)

StateAfterAdvance_asking(current_question_index) == ASKING_QUESTION

\* the state the session is left in once the cursor has moved on
StateAfterAdvance(current_question_index) ==
    IF AllQuestionsDone(current_question_index) THEN COMPLETED ELSE ASKING_QUESTION

NextQuestionText_current(current_question_index) ==
    QuestionAt(current_question_index - 1).question

\* next_question = QUESTIONS[current_question_index]; next_question["question"]
NextQuestionText(current_question_index) == QuestionAt(current_question_index).question

MOVING_ON == <<"MOVING_ON">>

MovingOnMessage_plain(question) == question

MovingOnMessage(question) == MOVING_ON \o <<"NL2">> \o question

FollowUpMessage_unstripped(analysis) ==
    IF analysis.feedback # <<>>
    THEN analysis.feedback
    ELSE IF analysis.missing_elements # <<>>
    THEN <<"TELL_ME_MORE_ABOUT", analysis.missing_elements[1]>>
    ELSE <<"MOVING_ON">>

\* the follow-up text: the analyzer's feedback, or a prompt naming missing[0]
FollowUpMessage(analysis) ==
    IF Strip(analysis.feedback) # <<>>
    THEN analysis.feedback
    ELSE IF analysis.missing_elements # <<>>
    THEN <<"TELL_ME_MORE_ABOUT", analysis.missing_elements[1]>>
    ELSE MOVING_ON

\* a handler's outcome: the session, the analyzer's verdict, the returned dict
Outcome(interview, analysis, ret) ==
    [interview |-> interview, analysis |-> Some(analysis), extracted |-> None,
     calls |-> <<>>, ret |-> ret]

\* the exception analysis["feedback"].strip() raises on a number, in place
\* of the returned dict
AttributeError == [raised |-> "AttributeError"]

\* a handler left by an exception: the session as changed up to there
Raised(interview, analysis) ==
    [interview |-> interview, analysis |-> Some(analysis), extracted |-> None,
     calls |-> <<>>, ret |-> AttributeError]

max_follow_ups == 1

\* _handle_question_response, is_complete: the answer is saved (i2), then the
\* completion message or the next question is returned
QuestionComplete(i2, analysis) ==
    LET idx == i2.current_question_index
    IN  IF AllQuestionsDone(idx)
        THEN LET i3 == [i2 EXCEPT
                          !.state = StateAfterAdvance(idx),
                          !.conversation_history =
                              Append(@, AssistantTurn(COMPLETION_MESSAGE))]
             IN  Outcome(i3, analysis,
                         Response(COMPLETION_MESSAGE, COMPLETED, TRUE,
                                  Some(_get_result(i3))))
        ELSE LET next_question_msg == NextQuestionText(idx)
             IN  Outcome([i2 EXCEPT
                            !.conversation_history =
                                Append(@, AssistantTurn(next_question_msg))],
                         analysis,
                         Response(next_question_msg, ASKING_QUESTION, FALSE, None))

\* _handle_question_response, too many follow-ups or nothing missing: the
\* answer is saved (i3) and the session moves on
QuestionForced(i3, analysis) ==
    LET idx == i3.current_question_index
    IN  IF AllQuestionsDone(idx)
        THEN LET i4 == [i3 EXCEPT !.state = StateAfterAdvance(idx)]
             IN  Outcome(i4, analysis,
                         Response(COMPLETION_MESSAGE, COMPLETED, TRUE,
                                  Some(_get_result(i4))))
        ELSE Outcome(i3, analysis,
                     Response(MovingOnMessage(NextQuestionText(idx)),
                              ASKING_QUESTION, FALSE, None))

\* _handle_question_response, normal follow-up
QuestionFollowUp(i2, follow_up_message, analysis) ==
    Outcome([i2 EXCEPT
               !.state = FOLLOWING_UP,
               !.conversation_history = Append(@, AssistantTurn(follow_up_message))],
            analysis,
            Response(follow_up_message, FOLLOWING_UP, FALSE, None))

QuestionIncomplete_counted(i2, question_id, analysis) ==
    IF i2.follow_up_count[question_id] > max_follow_ups
    THEN QuestionForced([SaveAndAdvance(i2, question_id) EXCEPT
                           !.follow_up_count = Del(i2.follow_up_count, question_id)],
                        analysis)
    ELSE QuestionFollowUp(i2, FollowUpMessage(analysis), analysis)

\* _handle_question_response, not is_complete: the follow-up is counted (i2)
QuestionIncomplete(i2, question_id, analysis) ==
    IF i2.follow_up_count[question_id] > max_follow_ups
       \/ Len(analysis.missing_elements) = 0
    THEN QuestionForced([SaveAndAdvance(i2, question_id) EXCEPT
                           !.follow_up_count = Del(i2.follow_up_count, question_id)],
                        analysis)
    ELSE IF analysis.feedback = JsonNumber
    THEN Raised([i2 EXCEPT !.state = FOLLOWING_UP], analysis)
    ELSE QuestionFollowUp(i2, FollowUpMessage(analysis), analysis)

\* _handle_question_response once the user turn is stored (i1) and analyzed
QuestionPolicy(i1, question_id, analysis) ==
    IF analysis.is_complete
    THEN QuestionComplete(SaveAndAdvance(i1, question_id), analysis)
    ELSE QuestionIncomplete([i1 EXCEPT
                               !.follow_up_count = CountFollowUp(@, question_id)],
                            question_id, analysis)

_handle_question_response(interview, user_message, llm) ==
    LET question_index == interview.current_question_index
        question_data == QuestionAt(question_index)
        question_id == question_data.id
    IN  WithAnalyzerCall(
            QuestionPolicy(AppendUserMessage(interview, question_id, user_message),
                               question_id,
                               analyze_response(user_message,
                                                question_data.required_elements, llm)),
            AnalyzerCall(AppendUserMessage(interview, question_id, user_message),
                         question_data, user_message, llm))

FollowUpLimit_two == 1 + 1

\* the literal 1 of "follow_up_count[question_id] > 1" in _handle_follow_up
FollowUpLimit == 1

\* _handle_follow_up, is_complete: the answer is saved and the state set (i3)
FollowUpComplete(i3, analysis) ==
    LET idx == i3.current_question_index
    IN  IF AllQuestionsDone(idx)
        THEN Outcome(i3, analysis,
                     Response(COMPLETION_MESSAGE, COMPLETED, TRUE,
                              Some(_get_result(i3))))
        ELSE Outcome(i3, analysis,
                     Response(NextQuestionText(idx), ASKING_QUESTION, FALSE, None))

\* _handle_follow_up, too many follow-ups or nothing missing: the answer is
\* saved and the state set (i3)
FollowUpForced(i3, analysis) ==
    LET idx == i3.current_question_index
    IN  IF AllQuestionsDone(idx)
        THEN Outcome(i3, analysis,
                     Response(COMPLETION_MESSAGE, COMPLETED, TRUE,
                              Some(_get_result(i3))))
        ELSE LET next_question_msg == MovingOnMessage(NextQuestionText(idx))
             IN  Outcome([i3 EXCEPT
                            !.conversation_history =
                                Append(@, AssistantTurn(next_question_msg))],
                         analysis,
                         Response(next_question_msg, ASKING_QUESTION, FALSE, None))

\* _handle_follow_up, another follow-up
FollowUpAgain(i2, follow_up_message, analysis) ==
    Outcome([i2 EXCEPT
               !.conversation_history = Append(@, AssistantTurn(follow_up_message))],
            analysis,
            Response(follow_up_message, FOLLOWING_UP, FALSE, None))

\* interview["state"] = ASKING_QUESTION, then COMPLETED if all questions are done
WithStateAfterAdvance(i2) ==
    [i2 EXCEPT !.state = StateAfterAdvance(i2.current_question_index)]

FollowUpIncomplete_patient(i2, question_id, analysis) ==
    IF Len(analysis.missing_elements) = 0
    THEN FollowUpForced(
             WithStateAfterAdvance(
                 [SaveAndAdvance(i2, question_id) EXCEPT
                    !.follow_up_count = Del(i2.follow_up_count, question_id)]),
             analysis)
    ELSE FollowUpAgain(i2, FollowUpMessage(analysis), analysis)

\* _handle_follow_up, not is_complete: the follow-up is counted (i2)
FollowUpIncomplete(i2, question_id, analysis) ==
    IF i2.follow_up_count[question_id] > FollowUpLimit
       \/ Len(analysis.missing_elements) = 0
    THEN FollowUpForced(
             WithStateAfterAdvance(
                 [SaveAndAdvance(i2, question_id) EXCEPT
                    !.follow_up_count = Del(i2.follow_up_count, question_id)]),
             analysis)
    ELSE IF analysis.feedback = JsonNumber
    THEN Raised(i2, analysis)
    ELSE FollowUpAgain(i2, FollowUpMessage(analysis), analysis)

\* _handle_follow_up once the user turn is stored (i1) and analyzed
FollowUpPolicy(i1, question_id, analysis) ==
    IF analysis.is_complete
    THEN FollowUpComplete(WithStateAfterAdvance(SaveAndAdvance(i1, question_id)),
                          analysis)
    ELSE FollowUpIncomplete([i1 EXCEPT
                               !.follow_up_count = CountFollowUp(@, question_id)],
                            question_id, analysis)

_handle_follow_up(interview, user_message, llm) ==
    LET question_index == interview.current_question_index
        question_data == QuestionAt(question_index)
        question_id == question_data.id
    IN  WithAnalyzerCall(
            FollowUpPolicy(AppendUserMessage(interview, question_id, user_message),
                               question_id,
                               analyze_response(user_message,
                                                question_data.required_elements, llm)),
            AnalyzerCall(AppendUserMessage(interview, question_id, user_message),
                         question_data, user_message, llm))

(***************************************************************************)
(* Inputs                                                                  *)
(***************************************************************************)
\* a reply of 10 characters, and one of 43 characters holding a keyword
ReplyShort == <<"c10">>
ReplyLong == <<"c10", "c10", "c10", "c10", "kw">>
Replies == {ReplyShort, ReplyLong}

ParsedReply(kind, is_complete, missing_elements, feedback) ==
    [kind |-> kind, is_complete |-> is_complete,
     missing_elements |-> missing_elements, feedback |-> feedback]

\* replies of the model to the analysis prompt
AnalysisReplies ==
    {ParsedReply("raise", FALSE, <<>>, <<>>),
     ParsedReply("no_json", FALSE, <<>>, <<>>),
     ParsedReply("bad_json", FALSE, <<>>, <<>>),
     ParsedReply("json", TRUE, <<>>, <<>>),
     ParsedReply("json", TRUE, <<"m1">>, <<"FB1">>),
     ParsedReply("trailing_comma", TRUE, <<>>, <<"sp">>),
     ParsedReply("json", FALSE, <<>>, <<"FB1">>),
     ParsedReply("json", FALSE, <<"m1">>, <<"FB1">>),
     ParsedReply("trailing_comma", FALSE, <<"m1", "m2">>, <<"sp">>)}

IdentityMessages ==
    {<< <<"name:", "Arman">>, <<"age:", "9">> >>,
     << <<"Arman", "9">> >>,
     << <<"hello">> >>,
     << <<"name:", "Arman">> >>,
     << <<"9">> >>}

ExtractedReply(kind, name, age) == [kind |-> kind, name |-> name, age |-> age]

\* replies of the model to the extraction prompt
ExtractionReplies ==
    {ExtractedReply("raise", None, None),
     ExtractedReply("no_json", None, None),
     ExtractedReply("bad_json", None, None),
     ExtractedReply("json", None, None),
     ExtractedReply("json", <<"Arman">>, None),
     ExtractedReply("json", None, Some(9)),
     ExtractedReply("json", <<"Arman">>, Some(9))}

(***************************************************************************)
(* State machine                                                           *)
(***************************************************************************)
NoQuestions == [q \in {} |-> <<>>]

\* the state of a user's session, WAITING_FOR_START without one
StateOf(sessions, user_id) ==
    IF user_id \in DOMAIN sessions THEN sessions[user_id].state ELSE WAITING_FOR_START

Init ==
    /\ interviews = [u \in {} |-> NewInterview]
    /\ last = [op |-> "none", user |-> 0, was |-> WAITING_FOR_START,
               pre |-> None, message |-> None,
               analysis |-> None, extracted |-> None, calls |-> <<>>,
               ret |-> None]
    /\ submitted = [u \in Users |-> NoQuestions]
    /\ completion_result = [u \in Users |-> None]
    /\ running = EmptyBag
    /\ serial = [u \in {} |-> NewInterview]

start_interview_keep(user_id) ==
    /\ interviews' = IF user_id \in DOMAIN interviews
                     THEN interviews ELSE Put(interviews, user_id, NewInterview)
    /\ last' = [op |-> "start", user |-> user_id,
                was |-> StateOf(interviews, user_id), pre |-> None,
                message |-> None, analysis |-> None, extracted |-> None,
                calls |-> <<>>,
                ret |-> Some(INTRODUCTION)]
    /\ UNCHANGED <<submitted, completion_result, running, serial>>

\* InterviewAgent.start_interview
start_interview(user_id) ==
    /\ interviews' = Put(interviews, user_id, NewInterview)
    /\ last' = [op |-> "start", user |-> user_id,
                was |-> StateOf(interviews, user_id), pre |-> None,
                message |-> None, analysis |-> None, extracted |-> None,
                calls |-> <<>>,
                ret |-> Some(INTRODUCTION)]
    /\ submitted' = [submitted EXCEPT ![user_id] = NoQuestions]
    /\ completion_result' = [completion_result EXCEPT ![user_id] = None]
    /\ UNCHANGED <<running, serial>>

reset_interview_restarted(user_id) ==
    /\ interviews' = IF user_id \in DOMAIN interviews
                     THEN Put(interviews, user_id, NewInterview) ELSE interviews
    /\ last' = [op |-> "reset", user |-> user_id,
                was |-> StateOf(interviews, user_id), pre |-> None,
                message |-> None, analysis |-> None, extracted |-> None,
                calls |-> <<>>,
                ret |-> None]
    /\ submitted' = [submitted EXCEPT ![user_id] = NoQuestions]
    /\ completion_result' = [completion_result EXCEPT ![user_id] = None]
    /\ UNCHANGED <<running, serial>>

\* InterviewAgent.reset_interview
reset_interview(user_id) ==
    /\ interviews' = IF user_id \in DOMAIN interviews
                     THEN Del(interviews, user_id) ELSE interviews
    /\ last' = [op |-> "reset", user |-> user_id,
                was |-> StateOf(interviews, user_id), pre |-> None,
                message |-> None, analysis |-> None, extracted |-> None,
                calls |-> <<>>,
                ret |-> None]
    /\ submitted' = [submitted EXCEPT ![user_id] = NoQuestions]
    /\ completion_result' = [completion_result EXCEPT ![user_id] = None]
    /\ UNCHANGED <<running, serial>>

get_interview_state_creating(user_id) ==
    /\ interviews' = IF user_id \in DOMAIN interviews
                     THEN interviews ELSE Put(interviews, user_id, NewInterview)
    /\ last' = [op |-> "get_state", user |-> user_id,
                was |-> StateOf(interviews, user_id), pre |-> None, message |-> None,
                analysis |-> None, extracted |-> None, calls |-> <<>>,
                ret |-> Some(interviews'[user_id].state)]
    /\ UNCHANGED <<submitted, completion_result, running, serial>>

\* InterviewAgent.get_interview_state
get_interview_state(user_id) ==
    /\ last' = [op |-> "get_state", user |-> user_id,
                was |-> StateOf(interviews, user_id), pre |-> None, message |-> None,
                analysis |-> None, extracted |-> None, calls |-> <<>>,
                ret |-> Some(StateOf(interviews, user_id))]
    /\ UNCHANGED <<interviews, submitted, completion_result, running, serial>>

Submitted_shared(user_id, user_message, out) ==
    /\ interviews' = [u \in DOMAIN interviews \cup {user_id} |-> out.interview]
    /\ last' = [op |-> "submit", user |-> user_id,
                was |-> StateOf(interviews, user_id),
                pre |-> IF user_id \in DOMAIN interviews
                        THEN Some(interviews[user_id]) ELSE None,
                message |-> Some(user_message),
                analysis |-> out.analysis, extracted |-> out.extracted,
                calls |-> out.calls,
                ret |-> Some(out.ret)]

\* what a submit leaves behind: the session, and the record of the call
Submitted(user_id, user_message, out) ==
    /\ interviews' = Put(interviews, user_id, out.interview)
    /\ last' = [op |-> "submit", user |-> user_id,
                was |-> StateOf(interviews, user_id),
                pre |-> IF user_id \in DOMAIN interviews
                        THEN Some(interviews[user_id]) ELSE None,
                message |-> Some(user_message),
                analysis |-> out.analysis, extracted |-> out.extracted,
                calls |-> out.calls,
                ret |-> Some(out.ret)]

process_response_new_handled(user_id) ==
    /\ user_id \notin DOMAIN interviews
    /\ \E user_message \in IdentityMessages, llm \in ExtractionReplies :
          Submitted(user_id, user_message,
                    _handle_name_age(NewInterview, user_message, llm))
    /\ submitted' = [submitted EXCEPT ![user_id] = NoQuestions]
    /\ completion_result' = [completion_result EXCEPT ![user_id] = None]
    /\ UNCHANGED <<running, serial>>

\* process_response for a user without a session
process_response_new(user_id) ==
    /\ user_id \notin DOMAIN interviews
    /\ \E user_message \in Replies :
          Submitted(user_id, user_message,
                    [interview |-> NewInterview, analysis |-> None,
                     extracted |-> None, calls |-> <<>>,
                     ret |-> Response(INTRODUCTION, GETTING_NAME_AGE, FALSE, None)])
    /\ submitted' = [submitted EXCEPT ![user_id] = NoQuestions]
    /\ completion_result' = [completion_result EXCEPT ![user_id] = None]
    /\ UNCHANGED <<running, serial>>

\* a submit that stays in GETTING_NAME_AGE is explored up to the bound
SubmittedNameAge(user_id, user_message, out) ==
    /\ out.interview.state = GETTING_NAME_AGE =>
           Len(interviews[user_id].conversation_history) < MaxIdentityRetries
    /\ Submitted(user_id, user_message, out)

\* process_response in GETTING_NAME_AGE
process_response_name_age(user_id) ==
    /\ user_id \in DOMAIN interviews
    /\ interviews[user_id].state = GETTING_NAME_AGE
    /\ \E user_message \in IdentityMessages, llm \in ExtractionReplies :
          SubmittedNameAge(user_id, user_message,
                           _handle_name_age(interviews[user_id], user_message, llm))
    /\ UNCHANGED <<submitted, completion_result, running, serial>>

\* the replies consumed for the question at the cursor, and the result handed
\* out by the submit that completes the interview
Recorded(user_id, user_message, out) ==
    LET question_id == QuestionAt(interviews[user_id].current_question_index).id
    IN  /\ submitted' = [submitted EXCEPT ![user_id] =
                            Put(@, question_id,
                                Append(Get(@, question_id, <<>>), user_message))]
        /\ completion_result' =
               IF out.ret.is_complete
               THEN [completion_result EXCEPT ![user_id] = out.ret.result]
               ELSE completion_result
        /\ UNCHANGED <<running, serial>>

SubmittedAnswer(user_id, user_message, out) ==
    /\ Submitted(user_id, user_message, out)
    /\ Recorded(user_id, user_message, out)

\* process_response in ASKING_QUESTION
process_response_question(user_id) ==
    /\ user_id \in DOMAIN interviews
    /\ interviews[user_id].state = ASKING_QUESTION
    /\ \E user_message \in Replies, llm \in AnalysisReplies :
          SubmittedAnswer(user_id, user_message,
                          _handle_question_response(interviews[user_id],
                                                    user_message, llm))

\* process_response in FOLLOWING_UP
process_response_follow_up(user_id) ==
    /\ user_id \in DOMAIN interviews
    /\ interviews[user_id].state = FOLLOWING_UP
    /\ \E user_message \in Replies, llm \in AnalysisReplies :
          SubmittedAnswer(user_id, user_message,
                          _handle_follow_up(interviews[user_id], user_message, llm))

ALREADY_FINISHED == <<"ALREADY_FINISHED">>

CompletedBranch_logging(interview, user_message) ==
    [interview |->
        [interview EXCEPT !.conversation_history = Append(@, UserTurn(user_message))],
     analysis |-> None,
     extracted |-> None,
     calls |-> <<>>,
     ret |-> Response(ALREADY_FINISHED, COMPLETED, TRUE, Some(_get_result(interview)))]

\* the COMPLETED branch of process_response
CompletedBranch(interview, user_message) ==
    [interview |-> interview,
     analysis |-> None,
     extracted |-> None,
     calls |-> <<>>,
     ret |-> Response(ALREADY_FINISHED, COMPLETED, TRUE, Some(_get_result(interview)))]

\* process_response in COMPLETED
process_response_completed(user_id) ==
    /\ user_id \in DOMAIN interviews
    /\ interviews[user_id].state = COMPLETED
    /\ \E user_message \in Replies :
          Submitted(user_id, user_message,
                    CompletedBranch(interviews[user_id], user_message))
    /\ UNCHANGED <<submitted, completion_result, running, serial>>

process_response(user_id) ==
    \/ process_response_new(user_id)
    \/ process_response_name_age(user_id)
    \/ process_response_question(user_id)
    \/ process_response_follow_up(user_id)
    \/ process_response_completed(user_id)

Next ==
    \E user_id \in ActiveUsers :
        \/ start_interview(user_id)
        \/ reset_interview(user_id)
        \/ get_interview_state(user_id)
        \/ process_response(user_id)

Spec == Init /\ [][Next]_vars

(***************************************************************************)
(* One InterviewAgent serving several users: the operations of different   *)
(* users interleave, each call running to its end; the messages and model  *)
(* replies are a part of those of Spec                                     *)
(***************************************************************************)
SeveralReplies == {ReplyShort}

SeveralAnalysisReplies ==
    {ParsedReply("raise", FALSE, <<>>, <<>>),
     ParsedReply("json", TRUE, <<"m1">>, <<"FB1">>)}

SeveralIdentityMessages == {<< <<"Arman", "9">> >>, << <<"hello">> >>}

SeveralExtractionReplies == {ExtractedReply("raise", None, None)}

\* process_response in GETTING_NAME_AGE
several_name_age(user_id) ==
    /\ user_id \in DOMAIN interviews
    /\ interviews[user_id].state = GETTING_NAME_AGE
    /\ \E user_message \in SeveralIdentityMessages, llm \in SeveralExtractionReplies :
          SubmittedNameAge(user_id, user_message,
                           _handle_name_age(interviews[user_id], user_message, llm))
    /\ UNCHANGED <<submitted, completion_result, running, serial>>

\* process_response in ASKING_QUESTION
several_question(user_id) ==
    /\ user_id \in DOMAIN interviews
    /\ interviews[user_id].state = ASKING_QUESTION
    /\ \E user_message \in SeveralReplies, llm \in SeveralAnalysisReplies :
          SubmittedAnswer(user_id, user_message,
                          _handle_question_response(interviews[user_id],
                                                    user_message, llm))

\* process_response in FOLLOWING_UP
several_follow_up(user_id) ==
    /\ user_id \in DOMAIN interviews
    /\ interviews[user_id].state = FOLLOWING_UP
    /\ \E user_message \in SeveralReplies, llm \in SeveralAnalysisReplies :
          SubmittedAnswer(user_id, user_message,
                          _handle_follow_up(interviews[user_id], user_message, llm))

several_process_response(user_id) ==
    \/ process_response_new(user_id)
    \/ several_name_age(user_id)
    \/ several_question(user_id)
    \/ several_follow_up(user_id)
    \/ process_response_completed(user_id)

NextSeveral ==
    \E user_id \in Users :
        \/ start_interview(user_id)
        \/ reset_interview(user_id)
        \/ get_interview_state(user_id)
        \/ several_process_response(user_id)

SpecSeveral == Init /\ [][NextSeveral]_vars

(***************************************************************************)
(* One user who fails to give name and age often enough for the history    *)
(* to outgrow the window read for the analyzer, and then answers           *)
(***************************************************************************)
LongIdentityRetries == HistoryWindow + 1

\* process_response in GETTING_NAME_AGE
long_name_age(user_id) ==
    /\ user_id \in DOMAIN interviews
    /\ interviews[user_id].state = GETTING_NAME_AGE
    /\ \E user_message \in SeveralIdentityMessages, llm \in SeveralExtractionReplies :
          /\ Len(interviews[user_id].conversation_history) < LongIdentityRetries
          /\ Submitted(user_id, user_message,
                       _handle_name_age(interviews[user_id], user_message, llm))
    /\ UNCHANGED <<submitted, completion_result, running, serial>>

long_process_response(user_id) ==
    \/ process_response_new(user_id)
    \/ long_name_age(user_id)
    \/ several_question(user_id)
    \/ several_follow_up(user_id)
    \/ process_response_completed(user_id)

NextLong ==
    \E user_id \in ActiveUsers :
        \/ start_interview(user_id)
        \/ reset_interview(user_id)
        \/ get_interview_state(user_id)
        \/ long_process_response(user_id)

SpecLong == Init /\ [][NextLong]_vars

(***************************************************************************)
(* One user who needs several messages to give name and age: every         *)
(* identity message and extraction reply of Spec, over more rounds          *)
(***************************************************************************)
IdentityRounds == 2

\* process_response in GETTING_NAME_AGE
identity_name_age(user_id) ==
    /\ user_id \in DOMAIN interviews
    /\ interviews[user_id].state = GETTING_NAME_AGE
    /\ \E user_message \in IdentityMessages, llm \in ExtractionReplies :
          /\ Len(interviews[user_id].conversation_history) < IdentityRounds
          /\ Submitted(user_id, user_message,
                       _handle_name_age(interviews[user_id], user_message, llm))
    /\ UNCHANGED <<submitted, completion_result, running, serial>>

identity_process_response(user_id) ==
    \/ process_response_new(user_id)
    \/ identity_name_age(user_id)
    \/ several_question(user_id)
    \/ several_follow_up(user_id)
    \/ process_response_completed(user_id)

NextIdentity ==
    \E user_id \in ActiveUsers :
        \/ start_interview(user_id)
        \/ reset_interview(user_id)
        \/ identity_process_response(user_id)

SpecIdentity == Init /\ [][NextIdentity]_vars

(***************************************************************************)
(* QuestionAnalyzer.analyze_response on its own: the inputs of one call    *)
(* are drawn in the initial state, the call fills in the result            *)
(***************************************************************************)
\* replies of 16 (a keyword, three question marks), 29, 40 (keywords), 41
\* (keywords), 80, 80 (keywords), 81 and 45 (a keyword, two question marks)
\* characters
ThresholdResponses ==
    {<<"c10", "kw", "?", "?", "?">>,
     <<"c10", "c10", "kw", "kw", "kw">>,
     <<"c10", "c10", "c10", "kw", "kw", "kw", "c1">>,
     <<"c10", "c10", "c10", "kw", "kw", "kw", "c1", "c1">>,
     <<"c10", "c10", "c10", "c10", "c10", "c10", "c10", "c10">>,
     <<"c10", "c10", "c10", "c10", "c10", "c10", "c10", "kw", "kw", "kw", "c1">>,
     <<"c10", "c10", "c10", "c10", "c10", "c10", "c10", "c10", "c1">>,
     <<"c10", "c10", "c10", "c10", "?", "?", "kw">>}

\* replies of 10, 30 (between blanks), 43 (with a keyword), 50, 90 and 33
\* (with three question marks) characters
AnalyzerResponses ==
    {ReplyShort,
     <<"sp", "c10", "c10", "c10", "sp">>,
     ReplyLong,
     <<"c10", "c10", "c10", "c10", "c10">>,
     <<"c10", "c10", "c10", "c10", "c10", "c10", "c10", "c10", "c10">>,
     <<"c10", "c10", "c10", "?", "?", "?">>} \cup ThresholdResponses

AnalyzerRequired == {<<>>, <<"e1">>, <<"e1", "e2">>}

AnalyzerReplies == AnalysisReplies \cup {ParsedReply("unusable", FALSE, <<>>, <<>>)}

InitAnalyzer ==
    /\ interviews = [u \in {} |-> NewInterview]
    /\ \E user_response \in AnalyzerResponses,
          required_elements \in AnalyzerRequired,
          llm \in AnalyzerReplies :
          last = [op |-> "analyze_call", user_response |-> user_response,
                  required_elements |-> required_elements, llm |-> llm,
                  analysis |-> None]
    /\ submitted = [u \in Users |-> NoQuestions]
    /\ completion_result = [u \in Users |-> None]
    /\ running = EmptyBag
    /\ serial = [u \in {} |-> NewInterview]

\* the call returns
Analyze ==
    /\ last.op = "analyze_call"
    /\ last' = [last EXCEPT
                   !.op = "analyze_return",
                   !.analysis = Some(analyze_response(last.user_response,
                                                      last.required_elements,
                                                      last.llm))]
    /\ UNCHANGED <<interviews, submitted, completion_result, running, serial>>

NextAnalyzer == Analyze

SpecAnalyzer == InitAnalyzer /\ [][NextAnalyzer]_vars

(***************************************************************************)
(* TelegramBot (bot/telegram_bot.py): the handler coroutines of one user.  *)
(* A coroutine runs from one await to the next without interruption, and   *)
(* at an await any other entered coroutine may run.  running is the bag of  *)
(* the entered coroutines, each with its locals and the await it is        *)
(* suspended at; serial holds the sessions an agent has after the same     *)
(* agent calls made one after the other.                                   *)
(* One text stands for every message: "Arman 9", read as lines of words by *)
(* _handle_name_age and as 7 characters by the analyzer.                   *)
(***************************************************************************)
MaxRunning == 2

TransportText ==
    [lines |-> << <<"Arman", "9">> >>,
     chars |-> <<"c1", "c1", "c1", "c1", "c1", "sp", "c1">>]

\* replies of the model to the analysis prompt: a complete verdict, and an
\* incomplete one whose feedback is a number
TransportAnalysisReplies ==
    {ParsedReply("json", TRUE, <<>>, <<>>),
     ParsedReply("json", FALSE, <<"m1">>, JsonNumber)}

TransportExtractionReplies == {ExtractedReply("raise", None, None)}

ERROR_MESSAGE == <<"ERROR_MESSAGE">>
CLEARED_MESSAGE == <<"CLEARED_MESSAGE">>

\* process_response as a function of the sessions: the outcome of the branch
\* the session's state selects
ProcessResponse(sessions, user_id, text, extraction, llm) ==
    IF user_id \notin DOMAIN sessions
    THEN [interview |-> NewInterview, analysis |-> None,
          extracted |-> None, calls |-> <<>>,
          ret |-> Response(INTRODUCTION, GETTING_NAME_AGE, FALSE, None)]
    ELSE IF sessions[user_id].state = GETTING_NAME_AGE
    THEN _handle_name_age(sessions[user_id], text.lines, extraction)
    ELSE IF sessions[user_id].state = ASKING_QUESTION
    THEN _handle_question_response(sessions[user_id], text.chars, llm)
    ELSE IF sessions[user_id].state = FOLLOWING_UP
    THEN _handle_follow_up(sessions[user_id], text.chars, llm)
    ELSE CompletedBranch(sessions[user_id], text.chars)

\* a handler coroutine: its locals, the await it is suspended at, and a
\* session it has computed and not yet stored
Coroutine(handler, user_id, user_message, awaiting, bot_message, result, pending) ==
    [handler |-> handler, user_id |-> user_id, user_message |-> user_message,
     awaiting |-> awaiting, bot_message |-> bot_message, result |-> result,
     pending |-> pending]

Entered(coroutine) == running (+) SetToBag({coroutine})
Finished(coroutine) == running (-) SetToBag({coroutine})
Continued(coroutine, continued) ==
    (running (-) SetToBag({coroutine})) (+) SetToBag({continued})

ProcessResponseYields_awaited == TRUE

\* process_response is a plain function called without await: it holds no
\* point at which the coroutine calling it is suspended
ProcessResponseYields == FALSE

\* start_command up to its await: reset_interview, start_interview
start_command(user_id) ==
    /\ BagCardinality(running) < MaxRunning
    /\ interviews' = Put(Del(interviews, user_id), user_id, NewInterview)
    /\ serial' = Put(Del(serial, user_id), user_id, NewInterview)
    /\ running' = Entered(Coroutine("start_command", user_id, None, "reply_text",
                                   Some(INTRODUCTION), None, None))
    /\ last' = [op |-> "start", user |-> user_id,
                was |-> StateOf(interviews, user_id), pre |-> None,
                message |-> None, analysis |-> None, extracted |-> None,
                calls |-> <<>>,
                ret |-> Some(INTRODUCTION)]
    /\ UNCHANGED <<submitted, completion_result>>

\* clear_command up to its await: reset_interview
clear_command(user_id) ==
    /\ BagCardinality(running) < MaxRunning
    /\ interviews' = Del(interviews, user_id)
    /\ serial' = Del(serial, user_id)
    /\ running' = Entered(Coroutine("clear_command", user_id, None, "reply_text",
                                   Some(CLEARED_MESSAGE), None, None))
    /\ last' = [op |-> "reset", user |-> user_id,
                was |-> StateOf(interviews, user_id), pre |-> None,
                message |-> None, analysis |-> None, extracted |-> None,
                calls |-> <<>>,
                ret |-> None]
    /\ UNCHANGED <<submitted, completion_result>>

\* handle_message up to "await context.bot.send_chat_action"
handle_message(user_id) ==
    /\ BagCardinality(running) < MaxRunning
    /\ running' = Entered(Coroutine("handle_message", user_id, Some(TransportText),
                                   "send_chat_action", None, None, None))
    /\ UNCHANGED <<interviews, last, submitted, completion_result, serial>>

\* the coroutine after process_response: at the reply with the returned
\* message, or in the except branch at the reply with the apology
AfterProcessResponse(coroutine, out) ==
    IF ProcessResponseYields
    THEN [coroutine EXCEPT !.awaiting = "process_response",
                           !.pending = Some(out.interview),
                           !.bot_message =
                               IF out.ret = AttributeError
                               THEN Some(ERROR_MESSAGE) ELSE Some(out.ret.message),
                           !.result =
                               IF out.ret = AttributeError THEN None ELSE Some(out.ret)]
    ELSE IF out.ret = AttributeError
    THEN [coroutine EXCEPT !.awaiting = "apology",
                           !.bot_message = Some(ERROR_MESSAGE)]
    ELSE [coroutine EXCEPT !.awaiting = "reply_text",
                           !.bot_message = Some(out.ret.message),
                           !.result = Some(out.ret)]

Processed(coroutine, out, replay) ==
    /\ interviews' = IF ProcessResponseYields
                     THEN interviews
                     ELSE Put(interviews, coroutine.user_id, out.interview)
    /\ serial' = Put(serial, coroutine.user_id, replay.interview)
    /\ running' = Continued(coroutine, AfterProcessResponse(coroutine, out))
    /\ last' = [op |-> "submit", user |-> coroutine.user_id,
                was |-> StateOf(interviews, coroutine.user_id),
                pre |-> IF coroutine.user_id \in DOMAIN interviews
                        THEN Some(interviews[coroutine.user_id]) ELSE None,
                message |-> coroutine.user_message,
                analysis |-> out.analysis, extracted |-> out.extracted,
                calls |-> out.calls,
                ret |-> IF out.ret = AttributeError THEN None ELSE Some(out.ret)]
    /\ UNCHANGED <<submitted, completion_result>>

\* handle_message from the typing indicator, sent or failed, to the await of
\* the reply: process_response, and the except branch if it raises
handle_message_process ==
    \E coroutine \in BagToSet(running) :
        /\ coroutine.handler = "handle_message"
        /\ coroutine.awaiting = "send_chat_action"
        /\ \E extraction \in TransportExtractionReplies,
              llm \in TransportAnalysisReplies :
              Processed(coroutine,
                        ProcessResponse(interviews, coroutine.user_id,
                                        coroutine.user_message[1], extraction, llm),
                        ProcessResponse(serial, coroutine.user_id,
                                        coroutine.user_message[1], extraction, llm))

\* the sessions once a coroutine resumes: a session it had computed and not
\* stored is stored
Resumed(sessions, coroutine) ==
    IF coroutine.pending # None
    THEN Put(sessions, coroutine.user_id, coroutine.pending[1])
    ELSE sessions

\* handle_message after "await update.message.reply_text(bot_message)": on a
\* finished interview the report is made, a failed reply leads to the apology
handle_message_replied ==
    \E coroutine \in BagToSet(running) :
        /\ coroutine.handler = "handle_message"
        /\ coroutine.awaiting \in {"process_response", "reply_text"}
        /\ interviews' = Resumed(interviews, coroutine)
        /\ \E delivered \in BOOLEAN :
              running' =
                  IF ~delivered
                  THEN Continued(coroutine,
                                 [coroutine EXCEPT !.awaiting = "apology",
                                                   !.pending = None,
                                                   !.bot_message = Some(ERROR_MESSAGE)])
                  ELSE IF coroutine.result # None
                          /\ coroutine.result[1].is_complete
                          /\ coroutine.result[1].result # None
                  THEN Continued(coroutine,
                                 [coroutine EXCEPT !.awaiting = "report",
                                                   !.pending = None])
                  ELSE Finished(coroutine)
        /\ UNCHANGED <<last, submitted, completion_result, serial>>

\* handle_message after the typing indicator of the report: sent, the
\* interview file is saved, the report made and its sending awaited; failed,
\* the except branch of the report is taken and the handler returns
handle_message_report ==
    \E coroutine \in BagToSet(running) :
        /\ coroutine.awaiting = "report"
        /\ \E sent \in BOOLEAN :
              running' =
                  IF sent
                  THEN Continued(coroutine,
                                 [coroutine EXCEPT !.awaiting = "_send_report_to_admin"])
                  ELSE Finished(coroutine)
        /\ UNCHANGED <<interviews, last, submitted, completion_result, serial>>

\* handle_message after the apology or the report, sent or failed; a command
\* handler after its reply
handler_returns ==
    \E coroutine \in BagToSet(running) :
        /\ \/ coroutine.awaiting \in {"apology", "_send_report_to_admin"}
           \/ coroutine.handler \in {"start_command", "clear_command"}
        /\ running' = Finished(coroutine)
        /\ UNCHANGED <<interviews, last, submitted, completion_result, serial>>

NextTransport ==
    \E user_id \in ActiveUsers :
        \/ start_command(user_id)
        \/ clear_command(user_id)
        \/ handle_message(user_id)
        \/ handle_message_process
        \/ handle_message_replied
        \/ handle_message_report
        \/ handler_returns

SpecTransport == Init /\ [][NextTransport]_vars

(***************************************************************************)
(* Properties                                                              *)
(***************************************************************************)
Sessions == DOMAIN interviews

\* the submit that produced the current state: its user, the session before
\* and after, the verdict of the analyzer and the returned dict
AfterSubmit == last.op = "submit" /\ last.pre # None
Pre == last.pre[1]
Post == interviews[last.user]
Verdict == last.analysis[1]
Returned == last.ret[1]
Judged == AfterSubmit /\ Pre.state \in {ASKING_QUESTION, FOLLOWING_UP}
PreQuestionId == QuestionAt(Pre.current_question_index).id

\* the ids of the questions before the cursor
Finalized(interview) ==
    {QuestionAt(i).id : i \in 0..(interview.current_question_index - 1)}

\* C1: every finalized question's answer is the blank-line join of exactly the
\* replies submitted for it, in submission order
C1_AnswerIsJoinOfReplies ==
    \A u \in Sessions :
        \A q \in Finalized(interviews[u]) :
            /\ q \in DOMAIN interviews[u].answers
            /\ q \in DOMAIN submitted[u]
            /\ interviews[u].question_responses[q] = submitted[u][q]
            /\ interviews[u].answers[q] = Join(<<"NL2">>, submitted[u][q])

C1_Witness ==
    /\ 1 \in Sessions
    /\ "q1" \in DOMAIN interviews[1].answers
    /\ submitted[1]["q1"] = <<ReplyShort, ReplyLong>>
    /\ interviews[1].answers["q1"] = ReplyShort \o <<"NL2">> \o ReplyLong

\* C2: a follow-up counter is absent or 1, and a finalized question has none
C2_FollowUpCountAtMostOne ==
    \A u \in Sessions :
        /\ \A q \in DOMAIN interviews[u].follow_up_count :
               interviews[u].follow_up_count[q] = 1
        /\ \A q \in Finalized(interviews[u]) :
               q \notin DOMAIN interviews[u].follow_up_count

C2_Witness ==
    /\ Judged
    /\ Pre.state = FOLLOWING_UP
    /\ Pre.follow_up_count = [q \in {PreQuestionId} |-> 1]
    /\ ~Verdict.is_complete
    /\ PreQuestionId \in Finalized(Post)
    /\ Post.follow_up_count = EmptyDict

\* C3: a submit within a session leaves the cursor or moves it on by exactly
\* 1, and it moves on exactly when the submit finalizes the current question
C3_Step ==
    \A u \in Sessions :
        (last'.op = "submit" /\ last'.user = u) =>
            LET before == interviews[u]
                after == interviews'[u]
                finalizes ==
                    /\ before.current_question_index < Len(QUESTIONS)
                    /\ QuestionAt(before.current_question_index).id
                           \notin DOMAIN before.answers
                    /\ QuestionAt(before.current_question_index).id
                           \in DOMAIN after.answers
            IN  /\ after.current_question_index
                       \in {before.current_question_index,
                            before.current_question_index + 1}
                /\ (after.current_question_index = before.current_question_index + 1)
                       <=> finalizes

C3_CursorAdvancesByOne == [][C3_Step]_vars

C3_Witness ==
    /\ Judged
    /\ Post.current_question_index = Pre.current_question_index + 1
    /\ Pre.current_question_index = 1

\* C4: a submit in Completed changes nothing of the session and returns the
\* already-finished notice with the result handed out on completion; only
\* start or reset leaves Completed
C4_Step ==
    \A u \in Sessions :
        interviews[u].state = COMPLETED =>
            /\ (last'.op = "submit" /\ last'.user = u) =>
                   /\ u \in DOMAIN interviews'
                   /\ interviews'[u] = interviews[u]
                   /\ last'.ret[1] = [message |-> ALREADY_FINISHED,
                                      state |-> COMPLETED,
                                      is_complete |-> TRUE,
                                      result |-> completion_result[u]]
            /\ (u \notin DOMAIN interviews' \/ interviews'[u].state # COMPLETED) =>
                   /\ last'.op \in {"start", "reset"}
                   /\ last'.user = u

C4_CompletedIsTerminal == [][C4_Step]_vars

C4_Witness ==
    /\ AfterSubmit
    /\ Pre.state = COMPLETED
    /\ Returned.message = ALREADY_FINISHED
    /\ Returned.result # None
    /\ Returned.result[1].q1 = ReplyShort \o <<"NL2">> \o ReplyLong

\* C5: a question id is a key of answers iff its index is below the cursor
C5_AnsweredIffBeforeCursor ==
    \A u \in Sessions :
        DOMAIN interviews[u].answers = Finalized(interviews[u])

C5_Witness ==
    /\ 1 \in Sessions
    /\ interviews[1].current_question_index = 1
    /\ DOMAIN interviews[1].answers = {"q1"}
    /\ interviews[1].state = FOLLOWING_UP

\* C6: the cursor stays within 0..len(QUESTIONS), and a cursor at
\* len(QUESTIONS) means the session is Completed
C6_CursorInRange ==
    \A u \in Sessions :
        /\ 0 <= interviews[u].current_question_index
        /\ interviews[u].current_question_index <= Len(QUESTIONS)
        /\ interviews[u].current_question_index = Len(QUESTIONS)
               => interviews[u].state = COMPLETED
        /\ interviews[u].state \in {ASKING_QUESTION, FOLLOWING_UP}
               => interviews[u].current_question_index < Len(QUESTIONS)

C6_Witness ==
    /\ Judged
    /\ Post.current_question_index = Len(QUESTIONS)
    /\ Post.state = COMPLETED

\* C7: follow_up_count has no key but the id of the question at the cursor,
\* and no key at all while collecting the identity or once completed
C7_CounterOnlyForCurrentQuestion ==
    \A u \in Sessions :
        LET interview == interviews[u]
        IN  /\ interview.state \in {ASKING_QUESTION, FOLLOWING_UP} =>
                   DOMAIN interview.follow_up_count
                       \subseteq {QuestionAt(interview.current_question_index).id}
            /\ interview.state \in {GETTING_NAME_AGE, COMPLETED} =>
                   DOMAIN interview.follow_up_count = {}

C7_Witness ==
    /\ Judged
    /\ Pre.state = FOLLOWING_UP
    /\ Verdict.is_complete
    /\ Pre.follow_up_count = [q \in {PreQuestionId} |-> 1]
    /\ Post.state = ASKING_QUESTION
    /\ Post.follow_up_count = EmptyDict

\* C8: on a complete verdict the question is finalized and the cursor moves
\* on; after the last question the session is Completed and the submit returns
\* the completion message with the result, otherwise the session awaits an
\* answer and the submit returns exactly the next question's text
C8_CompleteVerdict ==
    (Judged /\ Verdict.is_complete) =>
        /\ PreQuestionId \notin DOMAIN Pre.answers
        /\ PreQuestionId \in DOMAIN Post.answers
        /\ Post.current_question_index = Pre.current_question_index + 1
        /\ IF Post.current_question_index = Len(QUESTIONS)
           THEN /\ Post.state = COMPLETED
                /\ Returned.message = COMPLETION_MESSAGE
                /\ Returned.state = COMPLETED
                /\ Returned.is_complete
                /\ Returned.result # None
                /\ Returned.result[1].name = Post.name
                /\ Returned.result[1].age = Post.age
                /\ \A i \in 1..Len(QUESTIONS) :
                       Returned.result[1][QUESTIONS[i].id]
                           = Post.answers[QUESTIONS[i].id]
           ELSE /\ Post.state = ASKING_QUESTION
                /\ Returned.message = QuestionAt(Post.current_question_index).question
                /\ Returned.state = ASKING_QUESTION
                /\ ~Returned.is_complete
                /\ Returned.result = None

C8_Witness ==
    /\ Judged
    /\ Verdict.is_complete
    /\ Pre.state = FOLLOWING_UP
    /\ Pre.current_question_index = 0
    /\ Returned.message = <<"Q2">>

\* C9: a first incomplete verdict with missing elements leaves the cursor and
\* the answers alone, moves to the follow-up phase and replies with the
\* analyzer's feedback, or with a prompt naming the first missing element when
\* the feedback is blank
C9_FirstIncompleteVerdict ==
    (/\ Judged
     /\ Pre.state = ASKING_QUESTION
     /\ ~Verdict.is_complete
     /\ Verdict.missing_elements # <<>>
     /\ PreQuestionId \notin DOMAIN Pre.follow_up_count) =>
        /\ Post.current_question_index = Pre.current_question_index
        /\ Post.answers = Pre.answers
        /\ Post.state = FOLLOWING_UP
        /\ Returned.state = FOLLOWING_UP
        /\ ~Returned.is_complete
        /\ Returned.result = None
        /\ Returned.message =
               IF Strip(Verdict.feedback) # <<>>
               THEN Verdict.feedback
               ELSE <<"TELL_ME_MORE_ABOUT", Verdict.missing_elements[1]>>

C9_Witness ==
    /\ Judged
    /\ Pre.state = ASKING_QUESTION
    /\ ~Verdict.is_complete
    /\ Verdict.missing_elements = <<"m1", "m2">>
    /\ Verdict.feedback = <<"sp">>
    /\ Returned.message = <<"TELL_ME_MORE_ABOUT", "m1">>
    /\ Post.state = FOLLOWING_UP

\* C10: a second consecutive incomplete verdict for a question forces
\* acceptance: the question is finalized with the replies collected, the
\* cursor moves on by 1, the counter entry is removed and the reply is the
\* moving-on message with the next question, or the completion message after
\* the last question, never the analyzer's feedback
C10_ForcedAcceptance ==
    (/\ Judged
     /\ Pre.state = FOLLOWING_UP
     /\ ~Verdict.is_complete) =>
        /\ Pre.follow_up_count[PreQuestionId] = 1
        /\ PreQuestionId \in DOMAIN Post.answers
        /\ Post.answers[PreQuestionId] =
               Join(<<"NL2">>,
                    Append(Pre.question_responses[PreQuestionId], last.message[1]))
        /\ Post.current_question_index = Pre.current_question_index + 1
        /\ PreQuestionId \notin DOMAIN Post.follow_up_count
        /\ Returned.message # Verdict.feedback
        /\ Returned.message =
               IF Post.current_question_index = Len(QUESTIONS)
               THEN COMPLETION_MESSAGE
               ELSE MOVING_ON \o <<"NL2">>
                        \o QuestionAt(Post.current_question_index).question

C10_Witness ==
    /\ Judged
    /\ Pre.state = FOLLOWING_UP
    /\ ~Verdict.is_complete
    /\ Verdict.missing_elements # <<>>
    /\ Verdict.feedback = <<"FB1">>
    /\ Returned.message = <<"MOVING_ON", "NL2", "Q2">>
    /\ Post.state = ASKING_QUESTION

\* an occurrence of the text t in the text s
Contains(s, t) ==
    \E i \in 1..(Len(s) - Len(t) + 1) : SubSeq(s, i, i + Len(t) - 1) = t

\* the fields a reply lists as not yet known
NamedFields(message) == {message[i] : i \in 1..Len(message)} \cap {"NAME", "AGE"}

\* the submit that produced the current state was handled in GETTING_NAME_AGE
IdentitySubmit == AfterSubmit /\ Pre.state = GETTING_NAME_AGE

\* the name and the age that submit ended up with
Resolved == last.extracted[1]
NameResolved == Resolved.name # <<>>
AgeResolved == Resolved.age # None /\ Resolved.age[1] # 0

C11_Submit ==
    IdentitySubmit =>
        IF NameResolved /\ AgeResolved
        THEN /\ Post.name = Resolved.name
             /\ Post.age = Resolved.age
             /\ Post.state = ASKING_QUESTION
             /\ Post.current_question_index = 0
             /\ Returned.state = ASKING_QUESTION
             /\ Contains(Returned.message, QUESTIONS[1].question)
        ELSE /\ Post.name = None
             /\ Post.age = None
             /\ Post.state = GETTING_NAME_AGE
             /\ Post.current_question_index = 0
             /\ Returned.state = GETTING_NAME_AGE
             /\ NamedFields(Returned.message) =
                    {f \in {"NAME"} : ~NameResolved} \cup {f \in {"AGE"} : ~AgeResolved}

C11_Step ==
    /\ C11_Submit'
    /\ \A u \in DOMAIN interviews :
           (/\ interviews[u].state = GETTING_NAME_AGE
            /\ u \in DOMAIN interviews'
            /\ interviews'[u].state # GETTING_NAME_AGE) =>
               /\ last'.op = "submit"
               /\ last'.user = u
               /\ last'.pre = Some(interviews[u])
               /\ NameResolved'
               /\ AgeResolved'

\* C11: a session leaves GETTING_NAME_AGE only through a submit that resolved
\* both name and age, which stores them, moves to ASKING_QUESTION at cursor 0
\* and replies with the first question's text; a submit that left one of them
\* unresolved stays in GETTING_NAME_AGE at cursor 0 and its reply names
\* exactly the fields still missing
C11_IdentityGate == [][C11_Step]_vars

C11_Witness ==
    /\ IdentitySubmit
    /\ Pre.conversation_history =
           <<AssistantTurn(<<"DONT_KNOW_YET", "AGE", "PLEASE_TELL">>)>>
    /\ Post.state = ASKING_QUESTION
    /\ Post.name = <<"Arman">>
    /\ Post.age = Some(9)

\* a session as start_interview creates it
Fresh(interview) ==
    /\ interview.state = GETTING_NAME_AGE
    /\ interview.current_question_index = 0
    /\ interview.name = None
    /\ interview.age = None
    /\ DOMAIN interview.answers = {}
    /\ DOMAIN interview.question_responses = {}
    /\ DOMAIN interview.follow_up_count = {}
    /\ interview.conversation_history = <<>>

\* C12: start_interview, whatever the user's session was, returns the
\* introduction and leaves the user with a fresh session: GETTING_NAME_AGE,
\* cursor 0, no name or age, empty answers, responses, counters and history
C12_StartIsFresh ==
    last.op = "start" =>
        /\ last.ret = Some(INTRODUCTION)
        /\ last.user \in Sessions
        /\ Fresh(interviews[last.user])

C12_Witness ==
    /\ last.op = "start"
    /\ last.was = COMPLETED
    /\ Fresh(interviews[last.user])

\* C13: process_response for a user without a session creates the session
\* start_interview creates and returns the introduction with state
\* GETTING_NAME_AGE, is_complete false and no result; the message goes
\* through no extraction and no analysis and nothing of it is stored
C13_SubmitWithoutSession ==
    (last.op = "submit" /\ last.pre = None) =>
        /\ last.user \in Sessions
        /\ Fresh(interviews[last.user])
        /\ Returned.message = INTRODUCTION
        /\ Returned.state = GETTING_NAME_AGE
        /\ Returned.is_complete = FALSE
        /\ Returned.result = None
        /\ last.extracted = None
        /\ last.analysis = None
        /\ DOMAIN submitted[last.user] = {}

C13_Witness ==
    /\ last.op = "submit"
    /\ last.pre = None
    /\ last.message = Some(ReplyLong)
    /\ Fresh(interviews[1])
    /\ Returned.message = INTRODUCTION

\* a reset removes the session of its user and nothing else
C14_Removes ==
    last'.op = "reset" =>
        /\ DOMAIN interviews' = DOMAIN interviews \ {last'.user}
        /\ \A u \in DOMAIN interviews' : interviews'[u] = interviews[u]
        /\ (last'.user \notin DOMAIN interviews => interviews' = interviews)

\* the operation that follows a reset of the same user finds no session
C14_AsNeverStarted ==
    (last.op = "reset" /\ last'.user = last.user) =>
        /\ last'.was = WAITING_FOR_START
        /\ last'.pre = None
        /\ last'.op = "get_state" =>
               /\ last'.ret = Some(WAITING_FOR_START)
               /\ interviews' = interviews
        /\ last'.op = "start" =>
               /\ last'.ret = Some(INTRODUCTION)
               /\ Fresh(interviews'[last'.user])
        /\ last'.op = "submit" =>
               /\ last'.ret = Some(Response(INTRODUCTION, GETTING_NAME_AGE, FALSE, None))
               /\ Fresh(interviews'[last'.user])
        /\ last'.op = "reset" => interviews' = interviews

\* C14: reset_interview removes the user's session from any state, so that
\* get_interview_state then returns WAITING_FOR_START and the next operation
\* acts as for a user who never started; without a session it changes nothing
C14_ResetForgets == [][C14_Removes /\ C14_AsNeverStarted]_vars

C14_Witness ==
    /\ last.op = "reset"
    /\ last.was = FOLLOWING_UP
    /\ last.user \notin Sessions
    /\ interviews = [u \in {} |-> NewInterview]

C15_Step ==
    last'.op = "get_state" =>
        /\ interviews' = interviews
        /\ last'.ret = Some(IF last'.user \in DOMAIN interviews
                            THEN interviews[last'.user].state
                            ELSE WAITING_FOR_START)
        /\ (last.op = "get_state" /\ last.user = last'.user) => last'.ret = last.ret

\* C15: get_interview_state changes no session and creates none, and returns
\* the state of the user's session as it stands (WAITING_FOR_START without
\* one), so that calls with no operation in between return the same value
C15_GetStateReadsOnly == [][C15_Step]_vars

C15_Witness ==
    /\ last.op = "get_state"
    /\ last.user \notin Sessions
    /\ last.ret = Some(WAITING_FOR_START)

\* the submit that produced the current state finalized the last question
LastQuestionFinalized == Judged /\ Post.state = COMPLETED

\* C16: the result returned when the last question finalizes holds the stored
\* name and age and, for every question of QUESTIONS, an entry equal to the
\* question's finalized answer; an entry without a finalized answer is the
\* empty string, and no finalized answer is left out
C16_ResultHoldsEveryAnswer ==
    LastQuestionFinalized =>
        /\ Returned.is_complete
        /\ Returned.result # None
        /\ Returned.result[1].name = Post.name
        /\ Returned.result[1].age = Post.age
        /\ Post.name # None
        /\ Post.age # None
        /\ \A i \in 1..Len(QUESTIONS) :
               /\ QUESTIONS[i].id \in DOMAIN Returned.result[1]
               /\ QUESTIONS[i].id \in DOMAIN Post.answers
               /\ Returned.result[1][QUESTIONS[i].id] = Post.answers[QUESTIONS[i].id]
               /\ Returned.result[1][QUESTIONS[i].id] =
                      Join(<<"NL2">>, submitted[last.user][QUESTIONS[i].id])
        /\ \A q \in DOMAIN Post.answers :
               q \in DOMAIN Returned.result[1] /\ Returned.result[1][q] = Post.answers[q]
        /\ \A q \in DOMAIN Returned.result[1] \ ({"name", "age"} \cup DOMAIN Post.answers) :
               Returned.result[1][q] = <<>>

C16_Witness ==
    /\ LastQuestionFinalized
    /\ Returned.result[1].name = <<"Arman">>
    /\ Returned.result[1].age = Some(9)
    /\ Returned.result[1].q1 = ReplyShort \o <<"NL2">> \o ReplyLong
    /\ Returned.result[1].q2 = ReplyLong
    /\ Returned.result[1].q7 = <<>>

\* analyze_response has returned; what it returned
Analyzed == last.op = "analyze_return"
Analysis == last.analysis[1]

\* the model call failed or its reply gave no usable object
ModelFailed == last.llm.kind \in {"raise", "no_json", "bad_json", "unusable"}

C18_PolicyCorrections ==
    (Analyzed /\ ~ModelFailed) =>
        /\ ~Analysis.is_complete => Analysis.missing_elements # <<>>
        /\ Analysis.is_complete => Strip(Analysis.feedback) # <<>>
        /\ (~last.llm.is_complete /\ last.llm.missing_elements = <<>>) =>
               /\ Analysis.is_complete
               /\ Analysis.feedback = FEEDBACK_COMPLETE
        /\ Analysis.missing_elements = last.llm.missing_elements

C18_Witness ==
    /\ Analyzed
    /\ last.llm.kind = "json"
    /\ ~last.llm.is_complete
    /\ last.llm.missing_elements = <<>>
    /\ last.llm.feedback = <<"FB1">>
    /\ Analysis.is_complete
    /\ Analysis.feedback = FEEDBACK_COMPLETE

C19_Step ==
    \A b \in Users \ {last'.user} :
        /\ b \in DOMAIN interviews' <=> b \in DOMAIN interviews
        /\ b \in DOMAIN interviews => interviews'[b] = interviews[b]

\* C19: an operation of one user leaves the session of every other user as
\* it was, whatever the order in which the users' operations run
C19_SessionsIndependent == [][C19_Step]_vars

C19_Witness ==
    /\ last.op = "submit"
    /\ last.user = 2
    /\ Post.state = COMPLETED
    /\ 1 \in Sessions
    /\ interviews[1].state = FOLLOWING_UP
    /\ interviews[1].conversation_history # <<>>

\* C20: a submit handled in GETTING_NAME_AGE, ASKING_QUESTION or FOLLOWING_UP
\* appends the user's message and then the message it returns to the
\* session's conversation_history
C20_HistoryHoldsEveryMessage ==
    (AfterSubmit /\ Pre.state \in {GETTING_NAME_AGE, ASKING_QUESTION, FOLLOWING_UP}) =>
        Post.conversation_history =
            Pre.conversation_history
                \o <<UserTurn(last.message[1]), AssistantTurn(Returned.message)>>

\* C21 as claimed: the stored history holds at most the 15 most recent entries
C21_HistoryIsWindow ==
    \A u \in Sessions : Len(interviews[u].conversation_history) <= 15

\* the one call of the analyzer made by the submit that produced the state
Call == last.calls[1]

\* C21, amended: the stored history is never cut: a submit only appends to
\* it, so that it outgrows 15 entries; the window bounds only the history
\* handed to the analyzer
C21_HistoryAppendOnly ==
    AfterSubmit =>
        /\ Len(Post.conversation_history) >= Len(Pre.conversation_history)
        /\ SubSeq(Post.conversation_history, 1, Len(Pre.conversation_history)) =
               Pre.conversation_history
        /\ Judged =>
               /\ Len(Post.conversation_history) > Len(Pre.conversation_history)
               /\ Call.conversation_history # None =>
                      Len(Call.conversation_history[1]) < 15

C21_Witness ==
    /\ Judged
    /\ Len(Pre.conversation_history) > 15
    /\ Len(Post.conversation_history) = Len(Pre.conversation_history) + 2
    /\ Post.conversation_history[1] = Pre.conversation_history[1]
    /\ Len(Call.conversation_history[1]) = 14

\* C22: the analyzer is called with the replies stored for the current
\* question before this submit (none of them: None) and with the 14 turns of
\* the history that precede the user turn just appended, or all of them when
\* there are fewer (none: None), in their order
C22_AnalyzerContext ==
    Judged =>
        /\ Len(last.calls) = 1
        /\ Call.user_response = last.message[1]
        /\ Call.question_id = PreQuestionId
        /\ Call.previous_responses =
               IF PreQuestionId \in DOMAIN Pre.question_responses
                  /\ Pre.question_responses[PreQuestionId] # <<>>
               THEN Some(Pre.question_responses[PreQuestionId])
               ELSE None
        /\ Call.conversation_history =
               IF Pre.conversation_history = <<>> THEN None
               ELSE IF Len(Pre.conversation_history) <= 14
               THEN Some(Pre.conversation_history)
               ELSE Some(SubSeq(Pre.conversation_history,
                                Len(Pre.conversation_history) - 13,
                                Len(Pre.conversation_history)))

C22_Witness ==
    /\ Judged
    /\ Pre.state = FOLLOWING_UP
    /\ Len(Pre.conversation_history) = 16
    /\ Call.previous_responses = Some(<<ReplyShort>>)
    /\ Len(Call.conversation_history[1]) = 14
    /\ Call.conversation_history[1][14] = Pre.conversation_history[16]
    /\ Call.conversation_history[1][1] = Pre.conversation_history[3]

\* the heuristic has analyzed the reply: its trimmed length and question marks
Fallback == Analyzed /\ ModelFailed
TrimmedLength == StrLen(Strip(last.user_response))
QuestionMarks == Count(last.user_response, "?")

\* C23: the heuristic classifies a reply of trimmed length below 30 as
\* incomplete with all required elements missing, whatever it contains, and
\* does not apply this rule to a reply of trimmed length 30 or more
C23_TooShortRule ==
    Fallback =>
        /\ TrimmedLength < 30 =>
               /\ ~Analysis.is_complete
               /\ Analysis.missing_elements = last.required_elements
               /\ Analysis.feedback = FEEDBACK_TOO_SHORT
        /\ TrimmedLength >= 30 => Analysis.feedback # FEEDBACK_TOO_SHORT

C23_Witness ==
    /\ Fallback
    /\ TrimmedLength = 16
    /\ QuestionMarks = 3
    /\ HasKeyword(last.user_response)
    /\ ~Analysis.is_complete
    /\ Analysis.missing_elements = <<"e1", "e2">>

\* C24: a reply that is neither too short nor has more than 2 question marks
\* is classified complete with nothing missing when it is longer than 80
\* characters, or longer than 40 and holds a completion-indicating word, and
\* incomplete with the first required element missing otherwise
C24_LengthAndKeywordRule ==
    (Fallback /\ TrimmedLength >= 30 /\ QuestionMarks <= 2) =>
        IF TrimmedLength > 80
           \/ (TrimmedLength > 40 /\ \E i \in 1..Len(last.user_response) :
                                          last.user_response[i] = "kw")
        THEN /\ Analysis.is_complete
             /\ Analysis.missing_elements = <<>>
        ELSE /\ ~Analysis.is_complete
             /\ Analysis.missing_elements = SubSeq(last.required_elements, 1, 1)

\* the identity submit that produced the state called the model for the
\* extraction; what the earlier steps had resolved, and the reply
Extraction == IdentitySubmit /\ last.calls # <<>>
Before == last.calls[1].before
ExtractionReply == last.calls[1].reply
ExtractionFailed == ExtractionReply.kind \in {"raise", "no_json", "bad_json"}

\* C25: when the extraction call fails, or its reply leaves a field null, the
\* submit still returns: the name and the age stay what the label and
\* positional steps resolved, and the session advances if both are resolved
\* and otherwise stays in GETTING_NAME_AGE with the missing-field reply
C25_ExtractionFailureContained ==
    Extraction =>
        /\ Len(last.calls) = 1
        /\ last.ret # None
        /\ ExtractionFailed => Resolved = Before
        /\ (~ExtractionFailed /\ ExtractionReply.name = None) =>
               Resolved.name = Before.name
        /\ (~ExtractionFailed /\ ExtractionReply.age = None) =>
               Resolved.age = Before.age
        /\ IF NameResolved /\ AgeResolved
           THEN /\ Post.state = ASKING_QUESTION
                /\ Returned.state = ASKING_QUESTION
                /\ Post.name = Resolved.name
                /\ Post.age = Resolved.age
           ELSE /\ Post.state = GETTING_NAME_AGE
                /\ Returned.state = GETTING_NAME_AGE
                /\ Returned.message[1] = "DONT_KNOW_YET"
                /\ NamedFields(Returned.message) # {}

C25_Witness ==
    /\ Extraction
    /\ ExtractionReply.kind = "raise"
    /\ Before = [name |-> <<"Arman">>, age |-> None]
    /\ Resolved = Before
    /\ Post.state = GETTING_NAME_AGE
    /\ Returned.message = <<"DONT_KNOW_YET", "AGE", "PLEASE_TELL">>

NothingMissing == Judged /\ ~Verdict.is_complete /\ Verdict.missing_elements = <<>>

\* C30: a reply judged incomplete with no missing element is accepted at
\* once, also when no follow-up was asked for the question before: the
\* question gets its answer, its follow-up counter is gone, the cursor moves
\* on by 1 and the session is not in FOLLOWING_UP
C30_NothingMissingForcesAccept ==
    NothingMissing =>
        /\ PreQuestionId \in DOMAIN Post.answers
        /\ Post.answers[PreQuestionId] =
               Join(<<"NL2">>, Post.question_responses[PreQuestionId])
        /\ PreQuestionId \notin DOMAIN Post.follow_up_count
        /\ Post.current_question_index = Pre.current_question_index + 1
        /\ Post.state # FOLLOWING_UP
        /\ Returned.state # FOLLOWING_UP

C30_Witness ==
    /\ NothingMissing
    /\ Pre.state = ASKING_QUESTION
    /\ PreQuestionId \notin DOMAIN Pre.follow_up_count
    /\ PreQuestionId \notin DOMAIN Pre.question_responses
    /\ PreQuestionId \in DOMAIN Post.answers
    /\ Post.current_question_index = Pre.current_question_index + 1

\* the session the other of the two handlers leaves for the same session
\* data, message and verdict
OtherHandler ==
    IF Pre.state = ASKING_QUESTION
    THEN FollowUpPolicy(AppendUserMessage([Pre EXCEPT !.state = FOLLOWING_UP],
                                          PreQuestionId, last.message[1]),
                        PreQuestionId, Verdict).interview
    ELSE QuestionPolicy(AppendUserMessage([Pre EXCEPT !.state = ASKING_QUESTION],
                                          PreQuestionId, last.message[1]),
                        PreQuestionId, Verdict).interview

\* C28: for the same session data, message and verdict the handler of
\* ASKING_QUESTION and the handler of FOLLOWING_UP leave the same state,
\* cursor, answers, replies, follow-up counters and history
C28_HandlersAgree ==
    Judged =>
        /\ Post.state = OtherHandler.state
        /\ Post.current_question_index = OtherHandler.current_question_index
        /\ Post.answers = OtherHandler.answers
        /\ Post.question_responses = OtherHandler.question_responses
        /\ Post.follow_up_count = OtherHandler.follow_up_count
        /\ Post.conversation_history = OtherHandler.conversation_history

\* the submit that produced the state raised: the coroutines of its user that
\* are in the except branch of handle_message
FailedSubmit == last.op = "submit" /\ last.pre # None /\ last.ret = None
Apologising ==
    {coroutine \in BagToSet(running) :
        /\ coroutine.user_id = last.user
        /\ coroutine.awaiting = "apology"
        /\ coroutine.bot_message = Some(ERROR_MESSAGE)}

\* C26: when process_response raises, handle_message replies with the
\* apology and the user's session is still there and is the session from
\* before the failed submit
C26_FailedSubmitLeavesSession ==
    FailedSubmit =>
        /\ Apologising # {}
        /\ last.user \in Sessions
        /\ Post = Pre

OneFollowUpPending(interview) ==
    /\ interview.current_question_index < Len(QUESTIONS)
    /\ LET question_id == QuestionAt(interview.current_question_index).id
       IN  /\ question_id \in DOMAIN interview.follow_up_count
           /\ interview.follow_up_count[question_id] = 1
           /\ question_id \in DOMAIN interview.question_responses
           /\ Len(interview.question_responses[question_id]) = 1

\* C31: a session is in FOLLOWING_UP exactly when the follow-up counter of
\* the question at the cursor is 1 and one reply is stored for it; every
\* submit in FOLLOWING_UP finalizes that question, whatever the verdict, and
\* leaves FOLLOWING_UP
C31_FollowUpIsOneShot ==
    /\ \A u \in Sessions :
           (interviews[u].state = FOLLOWING_UP) <=> OneFollowUpPending(interviews[u])
    /\ (Judged /\ Pre.state = FOLLOWING_UP) =>
           /\ PreQuestionId \in DOMAIN Post.answers
           /\ Post.current_question_index = Pre.current_question_index + 1
           /\ Post.state # FOLLOWING_UP
           /\ Returned.state # FOLLOWING_UP

C31_Witness ==
    /\ Judged
    /\ Pre.state = FOLLOWING_UP
    /\ OneFollowUpPending(Pre)
    /\ ~Verdict.is_complete
    /\ Verdict.missing_elements # <<>>
    /\ Post.state = ASKING_QUESTION
    /\ Len(Post.question_responses[PreQuestionId]) = 2

\* the number of replies stored in a session, over all questions: the number
\* of submits it has consumed in ASKING_QUESTION and FOLLOWING_UP
RepliesStored(interview) ==
    LET upto[i \in 0..Len(QUESTIONS)] ==
            IF i = 0
            THEN 0
            ELSE upto[i - 1]
                 + Len(Get(interview.question_responses, QUESTIONS[i].id, <<>>))
    IN  upto[Len(QUESTIONS)]

\* C32: a question holds 1 or 2 replies and its answer is their join; a
\* session past GETTING_NAME_AGE has consumed one submit per stored reply,
\* at most 2 per finalized question and 1 more while in FOLLOWING_UP, and is
\* COMPLETED once the cursor is past the last question, so at most
\* 2 * len(QUESTIONS) submits lead from the first question to COMPLETED;
\* a submit that resolves no identity stays in GETTING_NAME_AGE
C32_TwoRepliesPerQuestion ==
    /\ \A u \in Sessions :
           /\ \A q \in DOMAIN interviews[u].question_responses :
                  Len(interviews[u].question_responses[q]) \in 1..2
           /\ \A q \in Finalized(interviews[u]) :
                  interviews[u].answers[q] =
                      Join(<<"NL2">>, interviews[u].question_responses[q])
           /\ RepliesStored(interviews[u])
                  <= 2 * interviews[u].current_question_index
                     + (IF interviews[u].state = FOLLOWING_UP THEN 1 ELSE 0)
           /\ (interviews[u].state = COMPLETED)
                  <=> (interviews[u].current_question_index = Len(QUESTIONS))
           /\ interviews[u].state = GETTING_NAME_AGE =>
                  RepliesStored(interviews[u]) = 0
    /\ Judged => RepliesStored(Post) = RepliesStored(Pre) + 1
    /\ (IdentitySubmit /\ ~(NameResolved /\ AgeResolved)) =>
           /\ Post.state = GETTING_NAME_AGE
           /\ RepliesStored(Post) = 0

C32_Witness ==
    /\ Judged
    /\ Pre.state = FOLLOWING_UP
    /\ Post.state = COMPLETED
    /\ RepliesStored(Post) = 2 * Len(QUESTIONS)
    /\ \A q \in Finalized(Post) : Len(Post.question_responses[q]) = 2

\* the reply of the identity submit before this one named only the age as
\* missing: that message had resolved a name
NameGivenBefore ==
    /\ Pre.conversation_history # <<>>
    /\ Pre.conversation_history[Len(Pre.conversation_history)].content =
           <<"DONT_KNOW_YET", "AGE", "PLEASE_TELL">>

\* C33: a session in GETTING_NAME_AGE stores neither name nor age and a
\* session in a later state stores both; an identity submit leaves
\* GETTING_NAME_AGE exactly when its own message resolves both fields, so a
\* field resolved by an earlier message alone is not there to complete it
C33_IdentityAtomic ==
    /\ \A u \in Sessions :
           IF interviews[u].state = GETTING_NAME_AGE
           THEN interviews[u].name = None /\ interviews[u].age = None
           ELSE NameFound(interviews[u].name) /\ AgeFound(interviews[u].age)
    /\ IdentitySubmit =>
           /\ Pre.name = None
           /\ Pre.age = None
           /\ (Post.state # GETTING_NAME_AGE) <=> (NameResolved /\ AgeResolved)
           /\ Post.state # GETTING_NAME_AGE =>
                  Post.name = Resolved.name /\ Post.age = Resolved.age

C33_Witness ==
    /\ IdentitySubmit
    /\ NameGivenBefore
    /\ AgeResolved
    /\ ~NameResolved
    /\ Post.state = GETTING_NAME_AGE
    /\ Post.name = None
    /\ Post.age = None
    /\ Returned.message = <<"DONT_KNOW_YET", "NAME", "PLEASE_TELL">>

\* the coroutines of handle_message whose submit returned is_complete with a
\* result
HandingOff ==
    {coroutine \in BagToSet(running) :
        /\ coroutine.handler = "handle_message"
        /\ coroutine.result # None
        /\ coroutine.result[1].is_complete
        /\ coroutine.result[1].result # None}

\* C34: a submit in COMPLETED returns is_complete with the result like the
\* submit that finalizes the last question, and every handle_message whose
\* submit returned is_complete with a result goes on to the report: it is at
\* the reply, at the report's typing indicator or sending the report, and
\* never in the except branch
C34_EveryCompleteSubmitReported ==
    /\ (AfterSubmit /\ last.ret # None /\ Pre.state = COMPLETED) =>
           Returned.is_complete /\ Returned.result # None
    /\ \A coroutine \in HandingOff :
           coroutine.awaiting \in {"reply_text", "report", "_send_report_to_admin"}

====
